---- MODULE Spec2Model ----
(***************************************************************************)
(* A model of the retrieval core: the persistent vector store              *)
(* (rag/vectorstore.py), rank fusion, MMR and the retrieve pipeline        *)
(* (rag/retrieve.py) and the reranker (rag/rerank.py).                     *)
(*                                                                         *)
(* Positions are 0-based as in the code; the sequence element at TLA+      *)
(* index p+1 is the element at position p.                                 *)
(***************************************************************************)
EXTENDS Integers, Sequences, FiniteSets, TLC

VARIABLES
    idxFile,    \* vectors.faiss on disk: [exists, vecs]
    sidecar,    \* metadata.jsonl on disk: [exists, lines]
    phase,      \* "new" (no VectorStore object), "ready", "failed" (constructor raised)
    index,      \* self.index: the vectors held in memory, in position order
    metadocs,   \* self.metadocs
    bm25,       \* self.bm25: [built, corpus]
    calls,      \* number of add calls made so far (numbers the supplied pairs)
    last,       \* the last call on the store and what it returned
    \* one call of retrieve(query, embedder, store, top_k) and its locals
    pc,         \* the stage retrieve is about to run; "idle": no call; "done": returned
    call,       \* the arguments: [dir, toks, top_k] (the query's embedding and tokens)
    qv,         \* qv
    vec_idxs,   \* vec_idxs
    bm_idxs,    \* bm_idxs
    rrf_scores, \* rrf_scores: the dict as its <<position, score>> items in insertion order
    cand_idxs,  \* cand_idxs
    cand_vecs,  \* cand_vecs
    mmr_cands,  \* _mmr: the parameter cand_idxs
    mmr_top_k,  \* _mmr: the parameter top_k
    selected,   \* _mmr: selected
    remaining,  \* _mmr: remaining
    mmr_ret,    \* _mmr: the value returned
    chosen_idxs, \* chosen_idxs
    final_idxs, \* final_idxs
    ce_scores,  \* rerank: scores, one per passage
    result,     \* what retrieve returned: [contexts, sources, raised]
    trace,      \* the stages run so far, in order
    vec_hits,   \* vec_hits, each pair with the index position it was made from
    \* two threads of the API process calling add on the one store
    adders,     \* per thread: [pc, c, ms, j, ov]: its step of add, its call number, its
                \* records, how many of them it has appended, and whether the call
                \* began while the other thread's add was under way
    \* one call of synthesize_answer(query, contexts, strict)
    sy_pc,      \* "idle", "guards", "loop" (over contexts[:2]), "done"
    sy_call,    \* the arguments: [query, chit, n, contexts, strict]; the contexts the
                \* loop has read so far, of n
    chosen_sents, \* chosen_sents
    used_idxs,  \* used_idxs
    answer,     \* what it returned: [kind, words, cites]
    \* one call of make_chunks(text)
    ck_pc,      \* "idle", "loop" (in the loop over lines), "done" (tails flushed)
    ck_lines,   \* lines: the annotated lines the loop has not reached yet
    ck_n,       \* the number of lines the loop has read (numbers sentences and rows)
    window,     \* window
    buf_sents,  \* buf_sents
    buf_tokens, \* buf_tokens
    current_section, \* current_section
    row_buf,    \* row_buf
    row_start,  \* row_start
    row_count,  \* row_count
    chunks      \* chunks, before the final de-noise

storeVars == <<idxFile, sidecar, phase, index, metadocs, bm25, calls, last>>

mmrVars == <<mmr_cands, mmr_top_k, selected, remaining, mmr_ret>>

retrVars == <<pc, call, qv, vec_idxs, bm_idxs, rrf_scores, cand_idxs, cand_vecs,
              mmr_cands, mmr_top_k, selected, remaining, mmr_ret,
              chosen_idxs, final_idxs, ce_scores, result, trace, vec_hits>>

synthVars == <<sy_pc, sy_call, chosen_sents, used_idxs, answer>>

chunkVars == <<ck_pc, ck_lines, ck_n, window, buf_sents, buf_tokens, current_section,
               row_buf, row_start, row_count, chunks>>

auxVars == <<adders, sy_pc, sy_call, chosen_sents, used_idxs, answer, ck_pc, ck_lines, ck_n, window, buf_sents, buf_tokens,
             current_section, row_buf, row_start, row_count, chunks>>

vars == <<idxFile, sidecar, phase, index, metadocs, bm25, calls, last,
          pc, call, qv, vec_idxs, bm_idxs, rrf_scores, cand_idxs, cand_vecs,
          mmr_cands, mmr_top_k, selected, remaining, mmr_ret,
          chosen_idxs, final_idxs, ce_scores, result, trace, vec_hits,
          adders, sy_pc, sy_call, chosen_sents, used_idxs, answer, ck_pc, ck_lines, ck_n, window, buf_sents, buf_tokens,
          current_section, row_buf, row_start, row_count, chunks>>

----------------------------------------------------------------------------
(* Bounds of the model *)

MaxBatch == 2      \* vectors / records supplied to one add call
MaxMeta == 2       \* records held in memory
MaxAdds == 2       \* add calls in one behaviour
MaxLines == 3      \* lines of a persisted sidecar (SpecLoad)
MaxK == 2          \* k of a search call

(* Program constants *)

StorageCap == 1500

----------------------------------------------------------------------------
(* Helpers *)

Min(a, b) == IF a <= b THEN a ELSE b

Max(a, b) == IF a >= b THEN a ELSE b

Range(s) == {s[i] : i \in 1..Len(s)}

Take(s, n) == SubSeq(s, 1, Min(n, Len(s)))

SeqsUpTo(S, n) == UNION {[1..k -> S] : k \in 0..n}

----------------------------------------------------------------------------
(* Texts, records, vectors *)

\* A text is <<kind, length>>; kind 0 is the absent or empty text.
NoText == <<0, 0>>

\* text[:n]
Slice(t, n) == IF t[2] <= n THEN t ELSE <<t[1], n>>

\* t.strip().lower().split(): one token per kind of text, none for the empty text
Tokens(t) == IF t[2] = 0 THEN <<>> ELSE <<t[1]>>

\* {}: the empty record (no key set)
EmptyRec == [dict |-> TRUE, ref |-> <<0, 0>>, chunk_id |-> 0, text |-> NoText]

\* json.loads of a line holding valid JSON that is no object (a number, a string, null)
ScalarVal == [dict |-> FALSE, ref |-> <<0, 0>>, chunk_id |-> 0, text |-> NoText]

\* (m.get("text") or m.get("snippet") or "")
TextOf(m) == m.text

\* The direction of an embedding vector, in steps of 30 degrees; every vector is
\* L2-normalized, so the inner product of two vectors is the cosine of their angle.
Dirs == {0, 3}

QueryDirs == {1, 2}

\* 100 * cos(30 degrees * d), rounded
Cos(d) == CASE d = 0 -> 100 [] d = 1 -> 87 [] d = 2 -> 50 [] OTHER -> 0

Sim(a, b) == Cos(IF a >= b THEN a - b ELSE b - a)

----------------------------------------------------------------------------
(* VectorStore *)

\* the corpus loop of _load and add: one token list per record
Corpus(docs) == [i \in 1..Len(docs) |-> Tokens(TextOf(docs[i]))]

\* m.get(...) raises AttributeError on a value that is no dict
CorpusRaises(docs) == \E i \in 1..Len(docs) : ~docs[i].dict

\* BM25Okapi(corpus) divides by the number of distinct terms: a corpus without
\* any token may raise ZeroDivisionError
Bm25MayRaise(docs) == \A i \in 1..Len(docs) : Tokens(TextOf(docs[i])) = <<>>

Bm25Outcomes(docs) == IF Bm25MayRaise(docs) THEN {TRUE, FALSE} ELSE {TRUE}

\* if tokens: self.bm25 = BM25Okapi(tokens)
Bm25After(old, docs) ==
    IF Len(docs) > 0 THEN [built |-> TRUE, corpus |-> Corpus(docs)] ELSE old

NoBm25 == [built |-> FALSE, corpus |-> <<>>]

\* the read loop of _load: blank lines and lines json.loads rejects are skipped
ParsedLines(lines) ==
    LET keep(l) == l.kind \in {"rec", "scalar"}
        kept == SelectSeq(lines, keep)
    IN  [i \in 1..Len(kept) |-> kept[i].val]

\* "align lengths" of _load
AlignNoPad(docs, n) ==
    IF Len(docs) > n THEN SubSeq(docs, 1, n) ELSE docs

AlignLengths(docs, n) ==
    IF Len(docs) > n THEN SubSeq(docs, 1, n)
    ELSE IF Len(docs) < n THEN docs \o [i \in 1..(n - Len(docs)) |-> EmptyRec]
    ELSE docs

\* The fields a freshly constructed object has before _load runs
LoadedIndex == IF idxFile.exists THEN idxFile.vecs ELSE <<>>

LoadedDocs ==
    AlignLengths(IF sidecar.exists THEN ParsedLines(sidecar.lines) ELSE <<>>,
                 Len(LoadedIndex))

\* no call made yet
NoCall == [op |-> "none", raised |-> FALSE, n |-> 0, before |-> 0,
           k |-> 0, hits |-> <<>>, out |-> <<>>]

\* VectorStore.__init__ and _load
Construct ==
    /\ phase = "new"
    /\ \E ok \in Bm25Outcomes(LoadedDocs) :
        IF CorpusRaises(LoadedDocs) \/ (Len(LoadedDocs) > 0 /\ ~ok)
        THEN /\ phase' = "failed"
             /\ last' = [op |-> "load", raised |-> TRUE, n |-> 0, before |-> 0,
                         k |-> 0, hits |-> <<>>, out |-> <<>>]
             /\ UNCHANGED <<index, metadocs, bm25>>
        ELSE /\ phase' = "ready"
             /\ index' = LoadedIndex
             /\ metadocs' = LoadedDocs
             /\ bm25' = Bm25After(NoBm25, LoadedDocs)
             /\ last' = [op |-> "load", raised |-> FALSE, n |-> 0, before |-> 0,
                         k |-> 0, hits |-> <<>>, out |-> <<>>]
    /\ UNCHANGED <<idxFile, sidecar, calls>>
    /\ UNCHANGED retrVars
    /\ UNCHANGED auxVars

\* The constructor's field assignments, before _load: a new process
Restart ==
    /\ phase \in {"ready", "failed"}
    /\ phase' = "new"
    /\ index' = <<>>
    /\ metadocs' = <<>>
    /\ bm25' = NoBm25
    /\ last' = NoCall
    /\ UNCHANGED <<idxFile, sidecar, calls>>
    /\ UNCHANGED retrVars
    /\ UNCHANGED auxVars

\* What the caller passes as one metadata dict: cid 0 is "no chunk_id key"
MetaInputs == {[cid |-> 0, text |-> <<1, 3>>], [cid |-> 7, text |-> <<2, StorageCap + 1>>]}

\* embedder.encode_passages(chunks) as the callers of add use it: the direction
\* of a text's embedding
EmbedDir(t) == IF t[1] = 2 THEN 3 ELSE 0

\* str(uuid.uuid4()) of the j-th record of call c: unique
Uuid(c, j) == 100 + 10 * c + j

\* the loop body of add: setdefault("chunk_id"), text[:1500]
Stored(m, c, j) ==
    [dict |-> TRUE, ref |-> <<c, j>>,
     chunk_id |-> IF m.cid = 0 THEN Uuid(c, j) ELSE m.cid,
     text |-> Slice(m.text, StorageCap)]

RecLine(r) == [kind |-> "rec", val |-> r]

\* VectorStore.add(embeddings, metadatas): dirs are the embeddings' rows, ms the
\* metadatas, bad the 1-based place of the first record json.dumps rejects (0: none),
\* dimOk whether embeddings.shape[1] is the index's dimension.
AddCall(dirs, ms, bad, dimOk) ==
    LET c == calls + 1
        n == Len(dirs)
        w == IF bad = 0 THEN Len(ms) ELSE bad - 1
        recs == [j \in 1..w |-> Stored(ms[j], c, j)]
        vecs == [j \in 1..n |-> [ref |-> <<c, j>>, dir |-> dirs[j]]]
        docs == metadocs \o recs
        res(r) == [op |-> "add", raised |-> r, n |-> n, before |-> Len(index),
                   k |-> 0, hits |-> <<>>, out |-> <<>>]
    IN  /\ calls' = c
        /\ UNCHANGED phase
        /\ IF n # Len(ms)
           THEN \* assert embeddings.shape[0] == len(metadatas)
                /\ last' = res(TRUE)
                /\ UNCHANGED <<idxFile, sidecar, index, metadocs, bm25>>
           ELSE /\ sidecar' = [exists |-> TRUE,
                               lines |-> sidecar.lines \o [j \in 1..w |-> RecLine(recs[j])]]
                /\ metadocs' = docs
                /\ IF bad # 0 \/ ~dimOk
                   THEN \* json.dumps raised in the loop, or index.add rejected the rows
                        /\ last' = res(TRUE)
                        /\ UNCHANGED <<idxFile, index, bm25>>
                   ELSE /\ index' = index \o vecs
                        /\ idxFile' = [exists |-> TRUE, vecs |-> index \o vecs]
                        /\ \E ok \in Bm25Outcomes(docs) :
                            IF Len(docs) > 0 /\ ~ok
                            THEN last' = res(TRUE) /\ UNCHANGED bm25
                            ELSE last' = res(FALSE) /\ bm25' = Bm25After(bm25, docs)

Add ==
    /\ phase = "ready"
    /\ calls < MaxAdds
    /\ \E n \in 0..MaxBatch, ms \in SeqsUpTo(MetaInputs, MaxBatch) :
        /\ Len(metadocs) + Len(ms) <= MaxMeta
        /\ \E bad \in (IF n = Len(ms) THEN 0..Len(ms) ELSE {0}),
              dimOk \in (IF n = Len(ms) THEN BOOLEAN ELSE {TRUE}) :
            AddCall([j \in 1..n |-> IF j <= Len(ms) THEN EmbedDir(ms[j].text) ELSE 0],
                    ms, bad, dimOk)
    /\ UNCHANGED retrVars
    /\ UNCHANGED auxVars

\* self.index.search(qvec, k): I[0], the k best positions by descending inner
\* product (equal scores in any order), filled up with -1 when k > ntotal
FaissSearch(ix, q, k) ==
    LET nt == Len(ix)
        h == Min(k, nt)
        sc(p) == Sim(ix[p + 1].dir, q)
        tops == {s \in [1..h -> 0..(nt - 1)] :
                    /\ \A i, j \in 1..h : i < j => s[i] # s[j] /\ sc(s[i]) >= sc(s[j])
                    /\ \A p \in 0..(nt - 1) :
                         (\A i \in 1..h : s[i] # p) => \A i \in 1..h : sc(s[i]) >= sc(p)}
    IN  {s \o [i \in 1..(k - h) |-> -1] : s \in tops}

\* a variant of the loop of search that lacks "if idx == -1: continue"
\* (metadocs[-1] is the last record)
SearchOutNoSentinel(I, q) ==
    [j \in 1..Len(I) |->
        [score |-> IF I[j] = -1 THEN -1000 ELSE Sim(index[I[j] + 1].dir, q),
         meta |-> IF I[j] = -1 THEN metadocs[Len(metadocs)]
                  ELSE IF I[j] < Len(metadocs) THEN metadocs[I[j] + 1] ELSE EmptyRec,
         pos |-> I[j]]]

\* the loop of search over zip(D[0], I[0]); pos records the hit a pair was made from
SearchOut(I, q) ==
    LET keep(i) == i # -1
        kept == SelectSeq(I, keep)
    IN  [j \in 1..Len(kept) |->
            [score |-> Sim(index[kept[j] + 1].dir, q),
             meta |-> IF kept[j] < Len(metadocs) THEN metadocs[kept[j] + 1] ELSE EmptyRec,
             pos |-> kept[j]]]

\* VectorStore.search(qvec, k)
Search ==
    /\ phase = "ready"
    /\ \E q \in QueryDirs, k \in 1..MaxK :
        \E I \in (IF Len(index) = 0 THEN {<<>>} ELSE FaissSearch(index, q, k)) :
            last' = [op |-> "search", raised |-> FALSE, n |-> 0, before |-> Len(index),
                     k |-> k, hits |-> I, out |-> SearchOut(I, q)]
    /\ UNCHANGED <<idxFile, sidecar, phase, index, metadocs, bm25, calls>>
    /\ UNCHANGED retrVars
    /\ UNCHANGED auxVars

\* VectorStore.size
Size == Len(index)

\* no add in a second thread, no call of synthesize_answer or make_chunks
Threads == {1, 2}

NoAdders == [t \in Threads |-> [pc |-> "idle", c |-> 0, ms |-> <<>>, j |-> 0, ov |-> FALSE]]

NoAnswer == [kind |-> "none", words |-> 0, cites |-> <<>>]

NoSynth ==
    /\ sy_pc = "idle"
    /\ sy_call = [query |-> {}, chit |-> FALSE, n |-> 0, contexts |-> <<>>, strict |-> TRUE]
    /\ chosen_sents = <<>>
    /\ used_idxs = <<>>
    /\ answer = NoAnswer

NoChunking ==
    /\ ck_pc = "idle"
    /\ ck_lines = <<>>
    /\ ck_n = 0
    /\ window = <<>>
    /\ buf_sents = <<>>
    /\ buf_tokens = 0
    /\ current_section = 0
    /\ row_buf = <<>>
    /\ row_start = 1
    /\ row_count = 0
    /\ chunks = <<>>

AuxIdle == adders = NoAdders /\ NoSynth /\ NoChunking

\* no call of retrieve is in progress
NoRetrieve ==
    /\ pc = "idle"
    /\ call = [dir |-> 0, toks |-> <<>>, top_k |-> 0]
    /\ qv = 0
    /\ vec_idxs = <<>>
    /\ bm_idxs = <<>>
    /\ rrf_scores = <<>>
    /\ cand_idxs = <<>>
    /\ cand_vecs = <<>>
    /\ mmr_cands = <<>>
    /\ mmr_top_k = 0
    /\ selected = <<>>
    /\ remaining = <<>>
    /\ mmr_ret = <<>>
    /\ chosen_idxs = <<>>
    /\ final_idxs = <<>>
    /\ ce_scores = <<>>
    /\ vec_hits = <<>>
    /\ result = [contexts |-> <<>>, sources |-> <<>>, raised |-> FALSE]
    /\ trace = <<>>

----------------------------------------------------------------------------
(* The store from an empty index directory: construction, add, search,      *)
(* restart of the process.                                                  *)

Init ==
    /\ idxFile = [exists |-> FALSE, vecs |-> <<>>]
    /\ sidecar = [exists |-> FALSE, lines |-> <<>>]
    /\ phase = "new"
    /\ index = <<>>
    /\ metadocs = <<>>
    /\ bm25 = NoBm25
    /\ calls = 0
    /\ last = NoCall
    /\ NoRetrieve
    /\ AuxIdle

Next == Construct \/ Add \/ Search \/ Restart

Spec == Init /\ [][Next]_vars

\* C1: after construction and any sequence of add calls, returned or raised, the
\* record at every position below size is the one supplied with the vector there.
PositionInvariant ==
    phase = "ready" =>
        \A p \in 0..(Size - 1) :
            p < Len(metadocs) /\ metadocs[p + 1].ref = index[p + 1].ref

\* C2: when add(vectors, metadatas) with n vectors and n records returns, size is
\* its value before the call plus n, and len(metadocs) == size.
AddPostcondition ==
    (last.op = "add" /\ ~last.raised) =>
        Size = last.before + last.n /\ Len(metadocs) = Size

\* C4: search returns at most k pairs, none on a store without vectors, and every
\* pair comes from a hit whose position resolves to a stored record: the -1
\* sentinel and positions >= len(metadocs) yield no pair.
SearchResolved ==
    last.op = "search" =>
        /\ Len(last.out) <= last.k
        /\ (Size = 0 => last.out = <<>>)
        /\ \A j \in 1..Len(last.out) :
            /\ last.out[j].pos \in 0..(Len(metadocs) - 1)
            /\ last.out[j].meta = metadocs[last.out[j].pos + 1]
        /\ Len(last.out) =
             Cardinality({i \in 1..Len(last.hits) : last.hits[i] \in 0..(Len(metadocs) - 1)})

\* a search with k > ntotal: the index answered with a sentinel, and a pair came back
SearchDroppedSentinel ==
    /\ last.op = "search"
    /\ \E i \in 1..Len(last.hits) : last.hits[i] = -1
    /\ Len(last.out) >= 1

\* C16: every store reloaded from disk, after any adds (some of them interrupted after
\* the sidecar append and before the index file was rewritten) and earlier reloads,
\* has len(metadocs) == size and at each position the record supplied with the vector
\* there.
ReloadedStoreAligned ==
    (last.op = "load" /\ ~last.raised) =>
        /\ Len(metadocs) = Size
        /\ \A p \in 0..(Size - 1) : metadocs[p + 1].ref = index[p + 1].ref

----------------------------------------------------------------------------
(* Construction over any persisted state.                                   *)

PersistedVecs == [ref : {<<0, 0>>}, dir : Dirs]

PersistedRecs ==
    {[dict |-> TRUE, ref |-> <<0, 0>>, chunk_id |-> 7, text |-> <<1, 3>>],
     [dict |-> TRUE, ref |-> <<0, 0>>, chunk_id |-> 8, text |-> NoText]}

PersistedLines ==
    {[kind |-> "blank", val |-> EmptyRec], [kind |-> "bad", val |-> EmptyRec],
     [kind |-> "scalar", val |-> ScalarVal]}
    \cup {RecLine(r) : r \in PersistedRecs}

InitLoad ==
    /\ idxFile \in {[exists |-> FALSE, vecs |-> <<>>]}
                   \cup {[exists |-> TRUE, vecs |-> v] : v \in SeqsUpTo(PersistedVecs, MaxMeta)}
    /\ sidecar \in {[exists |-> FALSE, lines |-> <<>>]}
                   \cup {[exists |-> TRUE, lines |-> l] : l \in SeqsUpTo(PersistedLines, MaxLines)}
    /\ phase = "new"
    /\ index = <<>>
    /\ metadocs = <<>>
    /\ bm25 = NoBm25
    /\ calls = 0
    /\ last = NoCall
    /\ NoRetrieve
    /\ AuxIdle

NextLoad == Construct

SpecLoad == InitLoad /\ [][NextLoad]_vars

\* the places of the sidecar lines json.loads accepts
ParsablePlaces == {i \in 1..Len(sidecar.lines) : sidecar.lines[i].kind \in {"rec", "scalar"}}

NthParsable(j) ==
    sidecar.lines[CHOOSE i \in ParsablePlaces :
                    Cardinality({x \in ParsablePlaces : x < i}) = j - 1].val

\* C3: after construction len(metadocs) is the vector count n of the persisted
\* index (0 without one): the records are those of the parseable lines in file
\* order, blank and unparseable lines skipped, cut at n from the tail, and padded
\* at the tail with empty records up to n.
LoadReconciled ==
    phase = "ready" =>
        LET n == IF idxFile.exists THEN Len(idxFile.vecs) ELSE 0
            good == IF sidecar.exists THEN Cardinality(ParsablePlaces) ELSE 0
        IN  /\ Size = n
            /\ Len(metadocs) = n
            /\ \A i \in 1..n :
                metadocs[i] = IF i <= good THEN NthParsable(i) ELSE EmptyRec

\* a load that skipped a blank and an unparseable line and padded the tail
LoadSkippedAndPadded ==
    /\ phase = "ready"
    /\ \E i \in 1..Len(sidecar.lines) : sidecar.lines[i].kind = "blank"
    /\ \E i \in 1..Len(sidecar.lines) : sidecar.lines[i].kind = "bad"
    /\ Cardinality(ParsablePlaces) >= 1
    /\ Cardinality(ParsablePlaces) < Len(metadocs)

----------------------------------------------------------------------------
(* retrieve(query, embedder, store, top_k)                                  *)

RrfK == 60          \* _rrf(rank_lists, k=60.0)
VecWidth == 24      \* store.search(qv, 24)
LexWidth == 50      \* [:50]
MmrQuota == 8       \* top_k=min(8, len(cand_idxs))
RerankTop == 3      \* top_k=min(3, len(passages))
SnippetCap == 500   \* snippet[:500]
LambdaTenths == 7   \* lambda_=0.7, in tenths

StageOrder ==
    <<"guard", "embed_query", "vector", "lexical", "fuse",
      "embed_passages", "mmr", "rerank", "assemble">>

\* return [], []
EmptyReturn == [contexts |-> <<>>, sources |-> <<>>, raised |-> FALSE]

\* a variant of the except clause that lets the exception go on to the caller
ExceptReraise == [contexts |-> <<>>, sources |-> <<>>, raised |-> TRUE]

\* except Exception: return [], []
ExceptReturn == [contexts |-> <<>>, sources |-> <<>>, raised |-> FALSE]

\* retrieve returns res at stage st
Stop(st, res) ==
    /\ pc' = "done"
    /\ result' = res
    /\ trace' = Append(trace, st)

\* stage st raised: the except clause returns
Caught(st) ==
    /\ pc' = "done"
    /\ result' = ExceptReturn
    /\ trace' = trace \o <<st, "except">>

\* stage st ends and stage nxt is next
Goto(st, nxt) ==
    /\ pc' = nxt
    /\ trace' = Append(trace, st)
    /\ UNCHANGED result

\* a variant of the guard that lets an empty store through
StoreEmptyNever == FALSE

\* store.index.ntotal == 0 or len(store.metadocs) == 0
StoreEmpty == Len(index) = 0 \/ Len(metadocs) = 0

Guard ==
    /\ pc = "guard"
    /\ IF StoreEmpty THEN Stop("guard", EmptyReturn) ELSE Goto("guard", "embed_query")
    /\ UNCHANGED <<qv, vec_idxs, bm_idxs, rrf_scores, cand_idxs, cand_vecs,
                   chosen_idxs, final_idxs, ce_scores, call, vec_hits>>
    /\ UNCHANGED mmrVars
    /\ UNCHANGED storeVars
    /\ UNCHANGED auxVars

\* qv = embedder.encode_queries([query])
EmbedQuery ==
    /\ pc = "embed_query"
    /\ \E ok \in BOOLEAN :
        IF ok THEN qv' = call.dir /\ Goto("embed_query", "vector")
        ELSE Caught("embed_query") /\ UNCHANGED qv
    /\ UNCHANGED <<vec_idxs, bm_idxs, rrf_scores, cand_idxs, cand_vecs,
                   chosen_idxs, final_idxs, ce_scores, call, vec_hits>>
    /\ UNCHANGED mmrVars
    /\ UNCHANGED storeVars
    /\ UNCHANGED auxVars

\* list.index: the 1-based place of the first element equal to x
FirstIndex(s, x) ==
    CHOOSE i \in 1..Len(s) : s[i] = x /\ \A j \in 1..(i - 1) : s[j] # x

\* [store.metadocs.index(h[1]) for h in vec_hits if h and h[1] in store.metadocs]
VecIdxs(hits) ==
    LET known(h) == \E i \in 1..Len(metadocs) : metadocs[i] = h.meta
        kept == SelectSeq(hits, known)
    IN  [j \in 1..Len(kept) |-> FirstIndex(metadocs, kept[j].meta) - 1]

\* vec_hits = store.search(qv, 24) and vec_idxs
VectorCandidates ==
    /\ pc = "vector"
    /\ \E ok \in BOOLEAN :
        IF ok
        THEN /\ \E I \in FaissSearch(index, qv, VecWidth) :
                    /\ vec_hits' = SearchOut(I, qv)
                    /\ vec_idxs' = VecIdxs(SearchOut(I, qv))
             /\ Goto("vector", "lexical")
        ELSE Caught("vector") /\ UNCHANGED <<vec_idxs, vec_hits>>
    /\ UNCHANGED <<qv, bm_idxs, rrf_scores, cand_idxs, cand_vecs,
                   chosen_idxs, final_idxs, ce_scores, call>>
    /\ UNCHANGED mmrVars
    /\ UNCHANGED storeVars
    /\ UNCHANGED auxVars

\* bm25.get_scores(toks)[i]: the query tokens document i holds
BmScore(doc, toks) == Cardinality(Range(doc) \cap Range(toks))

\* [i for _, i in sorted(((float(s), i) for i, s in enumerate(bm_scores)), reverse=True)[:50]]
BmTop(corpus, toks) ==
    LET n == Len(corpus)
        sc(p) == BmScore(corpus[p + 1], toks)
        before(a, b) == sc(a) > sc(b) \/ (sc(a) = sc(b) /\ a > b)
        sorted == [k \in 1..n |->
                      CHOOSE p \in 0..(n - 1) :
                          Cardinality({a \in 0..(n - 1) : before(a, p)}) = k - 1]
    IN  Take(sorted, LexWidth)

\* the lazy build: only the records with a non-empty text enter the corpus
LazyBm25 ==
    LET some(d) == d # <<>>
        tokens == SelectSeq(Corpus(metadocs), some)
    IN  IF ~bm25.built /\ Len(tokens) > 0 THEN [built |-> TRUE, corpus |-> tokens]
        ELSE bm25

LexicalCandidates ==
    /\ pc = "lexical"
    /\ \E ok \in BOOLEAN :
        IF ok
        THEN /\ bm25' = LazyBm25
             /\ bm_idxs' = IF LazyBm25.built /\ call.toks # <<>>
                           THEN BmTop(LazyBm25.corpus, call.toks) ELSE <<>>
             /\ Goto("lexical", "fuse")
        ELSE Caught("lexical") /\ UNCHANGED <<bm25, bm_idxs>>
    /\ UNCHANGED <<qv, vec_idxs, rrf_scores, cand_idxs, cand_vecs,
                   chosen_idxs, final_idxs, ce_scores, call, vec_hits>>
    /\ UNCHANGED mmrVars
    /\ UNCHANGED <<idxFile, sidecar, phase, index, metadocs, calls, last>>
    /\ UNCHANGED auxVars

RECURSIVE Product(_, _)
Product(a, b) == IF a > b THEN 1 ELSE a * Product(a + 1, b)

\* Scores are kept as exact multiples of 1 / RrfUnit(ranks): the unit is a common
\* multiple of every denominator k + r + 1 the lists can produce.
RrfUnit(ranks) ==
    LET longest == IF Len(ranks) = 0 THEN 0
                   ELSE IF Len(ranks) = 1 THEN Len(ranks[1])
                   ELSE Max(Len(ranks[1]), Len(ranks[2]))
    IN  Product(RrfK + 1, RrfK + longest)

\* 1.0 / (k + r + 1.0), r 0-based
RrfTerm(r, unit) == unit \div (RrfK + r + 1)

\* fused[idx] = fused.get(idx, 0.0) + term: a new key goes to the end of the dict
RrfPut(fused, idx, term) ==
    IF \E i \in 1..Len(fused) : fused[i][1] = idx
    THEN [i \in 1..Len(fused) |->
            IF fused[i][1] = idx THEN <<idx, fused[i][2] + term>> ELSE fused[i]]
    ELSE Append(fused, <<idx, term>>)

RECURSIVE RrfList(_, _, _, _)
\* for r, idx in enumerate(rlist), from the 1-based place at
RrfList(fused, rlist, at, unit) ==
    IF at > Len(rlist) THEN fused
    ELSE RrfList(RrfPut(fused, rlist[at], RrfTerm(at - 1, unit)), rlist, at + 1, unit)

RECURSIVE RrfLists(_, _, _, _)
\* for rlist in ranks
RrfLists(fused, ranks, at, unit) ==
    IF at > Len(ranks) THEN fused
    ELSE RrfLists(RrfList(fused, ranks[at], 1, unit), ranks, at + 1, unit)

\* _rrf(ranks, k=60.0)
Rrf(ranks) == RrfLists(<<>>, ranks, 1, RrfUnit(ranks))

\* a variant of the sort that reverses an ascending sort: equal scores come out in
\* the reverse of their dict order
SortedByScoreReversed(items) ==
    LET n == Len(items)
        before(a, b) == items[a][2] > items[b][2] \/ (items[a][2] = items[b][2] /\ a > b)
    IN  [k \in 1..n |->
            items[CHOOSE a \in 1..n : Cardinality({b \in 1..n : before(b, a)}) = k - 1]]

\* sorted(rrf_scores.items(), key=lambda x: x[1], reverse=True): descending score,
\* items of equal score in dict order (the sort is stable)
SortedByScore(items) ==
    LET n == Len(items)
        before(a, b) == items[a][2] > items[b][2] \/ (items[a][2] = items[b][2] /\ a < b)
    IN  [k \in 1..n |->
            items[CHOOSE a \in 1..n : Cardinality({b \in 1..n : before(b, a)}) = k - 1]]

\* cand_idxs = [i for i, _ in sorted(...)]
CandIdxs(items) == [k \in 1..Len(items) |-> SortedByScore(items)[k][1]]

\* rank_lists: the non-empty ones of vec_idxs, bm_idxs, in this order
RankLists ==
    LET some(l) == l # <<>>
    IN  SelectSeq(<<vec_idxs, bm_idxs>>, some)

Fuse ==
    /\ pc = "fuse"
    /\ IF RankLists = <<>>
       THEN Stop("fuse", EmptyReturn) /\ UNCHANGED <<rrf_scores, cand_idxs>>
       ELSE /\ rrf_scores' = Rrf(RankLists)
            /\ cand_idxs' = CandIdxs(Rrf(RankLists))
            /\ IF CandIdxs(Rrf(RankLists)) = <<>>
               THEN Stop("fuse", EmptyReturn)
               ELSE Goto("fuse", "embed_passages")
    /\ UNCHANGED <<qv, vec_idxs, bm_idxs, cand_vecs,
                   chosen_idxs, final_idxs, ce_scores, call, vec_hits>>
    /\ UNCHANGED mmrVars
    /\ UNCHANGED storeVars
    /\ UNCHANGED auxVars

\* list(range(n))
RangeList(n) == [i \in 1..n |-> i - 1]

\* top_k=min(8, len(cand_idxs))
MmrTopK(n) == Min(MmrQuota, n)

\* texts, cand_vecs = embedder.encode_passages(texts), and the call of _mmr up to
\* its loop
EmbedPassages ==
    /\ pc = "embed_passages"
    /\ \E ok \in BOOLEAN :
        IF ok
        THEN /\ cand_vecs' = [i \in 1..Len(cand_idxs) |->
                                EmbedDir(TextOf(metadocs[cand_idxs[i] + 1]))]
             /\ mmr_cands' = RangeList(Len(cand_idxs))
             /\ mmr_top_k' = MmrTopK(Len(cand_idxs))
             /\ selected' = <<>>
             /\ remaining' = RangeList(Len(cand_idxs))
             /\ Goto("embed_passages", "mmr")
        ELSE /\ Caught("embed_passages")
             /\ UNCHANGED <<cand_vecs, mmr_cands, mmr_top_k, selected, remaining>>
    /\ UNCHANGED <<qv, vec_idxs, bm_idxs, rrf_scores, cand_idxs, mmr_ret,
                   chosen_idxs, final_idxs, ce_scores, call, vec_hits>>
    /\ UNCHANGED storeVars
    /\ UNCHANGED auxVars

\* q_sim[j], in hundredths
QSim(j) == Sim(cand_vecs[j + 1], qv)

SetMax(S) == CHOOSE x \in S : \A y \in S : y <= x

\* mmr_score(j), in thousandths
MmrScore(j) ==
    LambdaTenths * QSim(j)
    - (10 - LambdaTenths)
        * SetMax({Sim(cand_vecs[j + 1], cand_vecs[selected[s] + 1]) : s \in 1..Len(selected)})

\* the key a pass of the loop maximizes
MmrKey(j) == IF selected = <<>> THEN QSim(j) ELSE MmrScore(j)

\* a variant of max that returns the last of several maximal items
MaxLast(rem) ==
    rem[CHOOSE i \in 1..Len(rem) :
            /\ \A k \in 1..Len(rem) : MmrKey(rem[k]) <= MmrKey(rem[i])
            /\ \A k \in (i + 1)..Len(rem) : MmrKey(rem[k]) < MmrKey(rem[i])]

\* max(remaining, key=...): the first of several maximal items
MaxFirst(rem) ==
    rem[CHOOSE i \in 1..Len(rem) :
            /\ \A k \in 1..Len(rem) : MmrKey(rem[k]) <= MmrKey(rem[i])
            /\ \A k \in 1..(i - 1) : MmrKey(rem[k]) < MmrKey(rem[i])]

\* remaining.remove(j)
Without(rem, j) ==
    LET other(x) == x # j
    IN  SelectSeq(rem, other)

\* a variant of the loop condition that ignores top_k
MmrLoopsUnbounded == remaining # <<>>

\* while remaining and len(selected) < top_k
MmrLoops == remaining # <<>> /\ Len(selected) < mmr_top_k

\* one pass of the loop of _mmr
MmrStep ==
    /\ pc = "mmr"
    /\ MmrLoops
    /\ \E ok \in BOOLEAN :
        IF ok
        THEN /\ selected' = Append(selected, MaxFirst(remaining))
             /\ remaining' = Without(remaining, MaxFirst(remaining))
             /\ UNCHANGED <<pc, result, trace>>
        ELSE Caught("mmr") /\ UNCHANGED <<selected, remaining>>
    /\ UNCHANGED <<qv, vec_idxs, bm_idxs, rrf_scores, cand_idxs, cand_vecs,
                   mmr_cands, mmr_top_k, mmr_ret,
                   chosen_idxs, final_idxs, ce_scores, call, vec_hits>>
    /\ UNCHANGED storeVars
    /\ UNCHANGED auxVars

\* return [cand_idxs[i] for i in selected]
MmrResult == [i \in 1..Len(selected) |-> mmr_cands[selected[i] + 1]]

\* the return of _mmr, and chosen_idxs = [cand_idxs[i] for i in mmr_selected]
MmrReturn ==
    /\ pc = "mmr"
    /\ ~MmrLoops
    /\ mmr_ret' = MmrResult
    /\ chosen_idxs' = [i \in 1..Len(MmrResult) |-> cand_idxs[MmrResult[i] + 1]]
    /\ IF MmrResult = <<>> THEN Stop("mmr", EmptyReturn) ELSE Goto("mmr", "rerank")
    /\ UNCHANGED <<qv, vec_idxs, bm_idxs, rrf_scores, cand_idxs, cand_vecs,
                   mmr_cands, mmr_top_k, selected, remaining,
                   final_idxs, ce_scores, call, vec_hits>>
    /\ UNCHANGED storeVars
    /\ UNCHANGED auxVars

\* model.predict on (query, passage): higher is better
CeScore(toks, t) ==
    IF t = NoText THEN 0 ELSE IF t[1] \in Range(toks) THEN 2 ELSE 1

\* top_k=min(3, len(passages))
RerankTopK(n) == Min(RerankTop, n)

\* a variant of rerank that sorts ascending
RankedAscending(scores, k) ==
    LET n == Len(scores)
        before(a, b) == scores[a] < scores[b] \/ (scores[a] = scores[b] /\ a < b)
        sorted == [j \in 1..n |->
                      CHOOSE a \in 1..n : Cardinality({b \in 1..n : before(b, a)}) = j - 1]
    IN  [j \in 1..Min(k, n) |-> sorted[j] - 1]

\* rerank: sorted([(float(s), i) for i, s in enumerate(scores)], reverse=True)[:top_k],
\* as the list of its i
Ranked(scores, k) ==
    LET n == Len(scores)
        before(a, b) == scores[a] > scores[b] \/ (scores[a] = scores[b] /\ a > b)
        sorted == [j \in 1..n |->
                      CHOOSE a \in 1..n : Cardinality({b \in 1..n : before(b, a)}) = j - 1]
    IN  [j \in 1..Min(k, n) |-> sorted[j] - 1]

\* passages, ce_rank = ce_rerank(query, passages, top_k=min(3, len(passages))),
\* final_idxs = [chosen_idxs[i] for _, i in ce_rank]
Rerank ==
    /\ pc = "rerank"
    /\ \E ok \in BOOLEAN :
        IF ok
        THEN LET scores == [i \in 1..Len(chosen_idxs) |->
                              CeScore(call.toks, TextOf(metadocs[chosen_idxs[i] + 1]))]
                 ranked == Ranked(scores, RerankTopK(Len(chosen_idxs)))
                 final == [j \in 1..Len(ranked) |-> chosen_idxs[ranked[j] + 1]]
             IN  /\ ce_scores' = scores
                 /\ final_idxs' = final
                 /\ IF final = <<>> THEN Stop("rerank", EmptyReturn)
                    ELSE Goto("rerank", "assemble")
        ELSE Caught("rerank") /\ UNCHANGED <<ce_scores, final_idxs>>
    /\ UNCHANGED <<qv, vec_idxs, bm_idxs, rrf_scores, cand_idxs, cand_vecs,
                   chosen_idxs, call, vec_hits>>
    /\ UNCHANGED mmrVars
    /\ UNCHANGED storeVars
    /\ UNCHANGED auxVars

\* the loop over enumerate(final_idxs, 1) and the return
Assemble ==
    /\ pc = "assemble"
    /\ LET meta(j) == IF final_idxs[j] < Len(metadocs) THEN metadocs[final_idxs[j] + 1]
                      ELSE EmptyRec
       IN  Stop("assemble",
                [contexts |-> [j \in 1..Len(final_idxs) |-> TextOf(meta(j))],
                 sources |-> [j \in 1..Len(final_idxs) |->
                                [meta |-> meta(j), rank |-> j,
                                 snippet |-> Slice(TextOf(meta(j)), SnippetCap),
                                 chunk_index |-> final_idxs[j]]],
                 raised |-> FALSE])
    /\ UNCHANGED <<qv, vec_idxs, bm_idxs, rrf_scores, cand_idxs, cand_vecs,
                   chosen_idxs, final_idxs, ce_scores, call, vec_hits>>
    /\ UNCHANGED mmrVars
    /\ UNCHANGED storeVars
    /\ UNCHANGED auxVars

----------------------------------------------------------------------------
(* One call of retrieve on a store that construction and add calls left.    *)

MaxStore == 4      \* vectors in the store retrieve is called on

RetrRecs ==
    {EmptyRec,
     [dict |-> TRUE, ref |-> <<0, 0>>, chunk_id |-> 1, text |-> <<1, 3>>],
     [dict |-> TRUE, ref |-> <<0, 0>>, chunk_id |-> 2, text |-> <<2, 600>>]}

\* (query, top_k) as the endpoint passes them: the query by its embedding's
\* direction and its tokens
RetrCalls ==
    {[dir |-> 1, toks |-> <<1>>, top_k |-> 5], [dir |-> 2, toks |-> <<2>>, top_k |-> 1],
     [dir |-> 1, toks |-> <<>>, top_k |-> 1]}

InitRetrieve ==
    /\ \E docs \in SeqsUpTo(RetrRecs, MaxStore) :
        /\ metadocs = docs
        /\ index = [i \in 1..Len(docs) |->
                      [ref |-> <<0, 0>>, dir |-> EmbedDir(TextOf(docs[i]))]]
        /\ idxFile = [exists |-> Len(docs) > 0,
                      vecs |-> [i \in 1..Len(docs) |->
                                  [ref |-> <<0, 0>>, dir |-> EmbedDir(TextOf(docs[i]))]]]
        /\ sidecar = [exists |-> Len(docs) > 0,
                      lines |-> [i \in 1..Len(docs) |-> RecLine(docs[i])]]
        /\ bm25 = Bm25After(NoBm25, docs)
    /\ phase = "ready"
    /\ calls = 0
    /\ last = NoCall
    /\ pc = "guard"
    /\ call \in RetrCalls
    /\ qv = 0
    /\ vec_idxs = <<>>
    /\ bm_idxs = <<>>
    /\ rrf_scores = <<>>
    /\ cand_idxs = <<>>
    /\ cand_vecs = <<>>
    /\ mmr_cands = <<>>
    /\ mmr_top_k = 0
    /\ selected = <<>>
    /\ remaining = <<>>
    /\ mmr_ret = <<>>
    /\ chosen_idxs = <<>>
    /\ final_idxs = <<>>
    /\ ce_scores = <<>>
    /\ vec_hits = <<>>
    /\ AuxIdle
    /\ result = EmptyReturn
    /\ trace = <<>>

NextRetrieve ==
    \/ Guard
    \/ EmbedQuery
    \/ VectorCandidates
    \/ LexicalCandidates
    \/ Fuse
    \/ EmbedPassages
    \/ MmrStep
    \/ MmrReturn
    \/ Rerank
    \/ Assemble

SpecRetrieve == InitRetrieve /\ [][NextRetrieve]_vars

\* C5: whatever stage raises, retrieve returns ([], []) and nothing reaches the caller.
RetrieveNeverRaises ==
    /\ ~result.raised
    /\ (pc = "done" /\ trace # <<>> /\ trace[Len(trace)] = "except") =>
            result.contexts = <<>> /\ result.sources = <<>>

\* the reranking capability raised, after every earlier stage had run
RerankFailureCaught ==
    /\ pc = "done"
    /\ Len(trace) = 9
    /\ trace[8] = "rerank"
    /\ trace[9] = "except"
    /\ chosen_idxs # <<>>

StagesRun ==
    LET stage(x) == x # "except"
    IN  SelectSeq(trace, stage)

\* C6: the stages run in the fixed order, one after the other; retrieve returns
\* ([], []) as soon as the store is empty or a stage leaves nothing, and runs no
\* later stage; an empty store returns before the query is embedded.
StagesInOrder ==
    LET ran == StagesRun
    IN  /\ Len(ran) <= Len(StageOrder)
        /\ \A i \in 1..Len(ran) : ran[i] = StageOrder[i]
        /\ pc \notin {"done", "idle"} => pc = StageOrder[Len(ran) + 1]
        /\ pc = "done" =>
            /\ (Len(index) = 0 \/ Len(metadocs) = 0) =>
                    trace = <<"guard">> /\ result = [contexts |-> <<>>, sources |-> <<>>, raised |-> FALSE]
            /\ Len(ran) < Len(StageOrder) =>
                    result.contexts = <<>> /\ result.sources = <<>>
            /\ (Len(ran) >= 5 /\ vec_idxs = <<>> /\ bm_idxs = <<>>) => Len(ran) = 5
            /\ (Len(ran) >= 5 /\ cand_idxs = <<>>) => Len(ran) = 5
            /\ (Len(ran) >= 7 /\ chosen_idxs = <<>>) => Len(ran) = 7
            /\ (Len(ran) >= 8 /\ final_idxs = <<>>) => Len(ran) = 8

\* an empty store: retrieve returned at the guard
EmptyStoreReturned ==
    /\ pc = "done"
    /\ Len(index) = 0
    /\ trace = <<"guard">>
    /\ result.contexts = <<>>
    /\ call.toks # <<>>

\* C10: a call that reaches assembly returns n = min(3, |diversified set|) contexts
\* and n sources, whatever top_k is: pairwise distinct positions, the n best of the
\* diversified set by reranker score and in descending score; sources[j] has rank
\* j (1-based), the store position as chunk_index and a snippet of at most 500
\* characters, and contexts[j] is the stored text of that position.
ResultShape ==
    (pc = "done" /\ trace # <<>> /\ trace[Len(trace)] = "assemble") =>
        LET n == IF Len(chosen_idxs) < 3 THEN Len(chosen_idxs) ELSE 3
            src == result.sources
            ce(p) == CeScore(call.toks, metadocs[p + 1].text)
        IN  /\ Len(result.contexts) = n
            /\ Len(src) = n
            /\ \A i, j \in 1..Len(src) : i < j =>
                /\ src[i].chunk_index # src[j].chunk_index
                /\ ce(src[i].chunk_index) >= ce(src[j].chunk_index)
            /\ \A j \in 1..Len(src) :
                /\ src[j].rank = j
                /\ src[j].chunk_index \in 0..(Len(metadocs) - 1)
                /\ \E c \in 1..Len(chosen_idxs) : chosen_idxs[c] = src[j].chunk_index
                /\ \A c \in 1..Len(chosen_idxs) :
                      (\A i \in 1..Len(src) : src[i].chunk_index # chosen_idxs[c])
                          => ce(chosen_idxs[c]) <= ce(src[j].chunk_index)
                /\ src[j].meta = metadocs[src[j].chunk_index + 1]
                /\ src[j].snippet[2] <= 500
                /\ src[j].snippet[1] = metadocs[src[j].chunk_index + 1].text[1]
                /\ src[j].snippet[2] <= metadocs[src[j].chunk_index + 1].text[2]
                /\ result.contexts[j] = metadocs[src[j].chunk_index + 1].text

\* top_k = 1, four diversified positions, three results, one with a cut snippet
ThreeOfFourReturned ==
    /\ pc = "done"
    /\ trace # <<>> /\ trace[Len(trace)] = "assemble"
    /\ call.top_k = 1
    /\ Len(chosen_idxs) = 4
    /\ Len(result.sources) = 3
    /\ \E j \in 1..3 : result.sources[j].snippet # result.contexts[j]
    /\ \E i, j \in 1..3 : CeScore(call.toks, result.contexts[i]) > CeScore(call.toks, result.contexts[j])

\* C15: once the vector stage has run, vec_idxs holds, hit by hit, the store position
\* of the vector that was hit: as many positions as hits, each the hit's position,
\* no position twice, in similarity-descending order.
VecIdxsAreHitPositions ==
    (Len(trace) >= 3 /\ trace[3] = "vector" /\ (Len(trace) = 3 \/ trace[4] # "except"))
        => /\ Len(vec_idxs) = Len(vec_hits)
           /\ \A j \in 1..Len(vec_idxs) : vec_idxs[j] = vec_hits[j].pos
           /\ \A i, j \in 1..Len(vec_idxs) : i # j => vec_idxs[i] # vec_idxs[j]
           /\ \A i, j \in 1..Len(vec_idxs) :
                 i < j => Sim(index[vec_idxs[i] + 1].dir, qv) >= Sim(index[vec_idxs[j] + 1].dir, qv)

----------------------------------------------------------------------------
(* Rank fusion on any two rank lists.                                       *)

MaxList == 3       \* length of a rank list
MaxPos == 3        \* positions 0..MaxPos-1 in the rank lists

IdleStore ==
    /\ idxFile = [exists |-> FALSE, vecs |-> <<>>]
    /\ sidecar = [exists |-> FALSE, lines |-> <<>>]
    /\ phase = "ready"
    /\ index = <<>>
    /\ metadocs = <<>>
    /\ bm25 = NoBm25
    /\ calls = 0
    /\ last = NoCall

InitRRF ==
    /\ IdleStore
    /\ pc = "fuse"
    /\ call \in RetrCalls
    /\ qv = call.dir
    /\ vec_idxs \in SeqsUpTo(0..(MaxPos - 1), MaxList)
    /\ bm_idxs \in {l \in SeqsUpTo(0..(MaxPos - 1), MaxList) :
                      \A i, j \in 1..Len(l) : i # j => l[i] # l[j]}
    /\ rrf_scores = <<>>
    /\ cand_idxs = <<>>
    /\ cand_vecs = <<>>
    /\ mmr_cands = <<>>
    /\ mmr_top_k = 0
    /\ selected = <<>>
    /\ remaining = <<>>
    /\ mmr_ret = <<>>
    /\ chosen_idxs = <<>>
    /\ final_idxs = <<>>
    /\ ce_scores = <<>>
    /\ vec_hits = <<>>
    /\ AuxIdle
    /\ result = EmptyReturn
    /\ trace = <<"guard", "embed_query", "vector", "lexical">>

NextRRF == Fuse

SpecRRF == InitRRF /\ [][NextRRF]_vars

RECURSIVE Contribution(_, _, _, _)
\* what the occurrences of position p at the 1-based places at.. of list l add to
\* p's score, in multiples of 1 / unit
Contribution(l, p, at, unit) ==
    IF at > Len(l) THEN 0
    ELSE (IF l[at] = p THEN unit \div (60 + (at - 1) + 1) ELSE 0)
         + Contribution(l, p, at + 1, unit)

\* C7: the fused score of a position is the sum, over the lists and the ranks at
\* which they hold it, of 1 / (60 + rank + 1); cand_idxs holds every fused position
\* once, by descending fused score, positions of equal score in the order they
\* were first discovered (vector list, then lexical list); two identical lists
\* give back that list.
RrfFusedOrder ==
    (pc # "fuse" /\ (vec_idxs # <<>> \/ bm_idxs # <<>>)) =>
        LET unit == RrfUnit(<<vec_idxs, bm_idxs>>)
            seen == vec_idxs \o bm_idxs
            score(p) == Contribution(vec_idxs, p, 1, unit) + Contribution(bm_idxs, p, 1, unit)
            first(p) == CHOOSE i \in 1..Len(seen) : seen[i] = p /\ \A j \in 1..(i - 1) : seen[j] # p
        IN  /\ Range(cand_idxs) = Range(seen)
            /\ Len(rrf_scores) = Len(cand_idxs)
            /\ \A i \in 1..Len(rrf_scores) : rrf_scores[i][2] = score(rrf_scores[i][1])
            /\ \A i, j \in 1..Len(cand_idxs) : i < j =>
                /\ cand_idxs[i] # cand_idxs[j]
                /\ \/ score(cand_idxs[i]) > score(cand_idxs[j])
                   \/ /\ score(cand_idxs[i]) = score(cand_idxs[j])
                      /\ first(cand_idxs[i]) < first(cand_idxs[j])
            /\ vec_idxs = bm_idxs => cand_idxs = vec_idxs

\* two positions that swap ranks between the lists: equal fused scores
FusedTie ==
    /\ pc # "fuse"
    /\ Len(vec_idxs) >= 2
    /\ Len(bm_idxs) >= 2
    /\ vec_idxs[1] = bm_idxs[2]
    /\ vec_idxs[2] = bm_idxs[1]
    /\ vec_idxs[1] # vec_idxs[2]
    /\ Len(cand_idxs) >= 2
    /\ cand_idxs[1] = vec_idxs[1]

----------------------------------------------------------------------------
(* _mmr on any candidate vectors.                                           *)

MaxCands == 9      \* candidates handed to _mmr
MaxTopK == 2       \* top_k of a call that does not come from retrieve

\* a relabelling of the candidates: cand_idxs = [n-1, ..., 0]
ReversedList(n) == [i \in 1..n |-> n - i]

InitMMR ==
    /\ IdleStore
    /\ pc = "mmr"
    /\ call \in {c \in RetrCalls : c.top_k = 5}
    /\ qv \in QueryDirs
    /\ vec_idxs = <<>>
    /\ bm_idxs = <<>>
    /\ rrf_scores = <<>>
    /\ cand_vecs \in SeqsUpTo(Dirs, MaxCands)
    /\ cand_idxs = RangeList(Len(cand_vecs))
    /\ \E direct \in BOOLEAN :
        IF direct
        THEN mmr_top_k \in 0..MaxTopK /\ mmr_cands = ReversedList(Len(cand_vecs))
        ELSE mmr_top_k = MmrTopK(Len(cand_vecs)) /\ mmr_cands = RangeList(Len(cand_vecs))
    /\ selected = <<>>
    /\ remaining = RangeList(Len(cand_vecs))
    /\ mmr_ret = <<>>
    /\ chosen_idxs = <<>>
    /\ final_idxs = <<>>
    /\ ce_scores = <<>>
    /\ vec_hits = <<>>
    /\ AuxIdle
    /\ result = EmptyReturn
    /\ trace = <<"guard", "embed_query", "vector", "lexical", "fuse", "embed_passages">>

NextMMR == MmrStep \/ MmrReturn

\* the call runs on: a pass of the loop or the return that is enabled is taken
SpecMMR == InitMMR /\ [][NextMMR]_vars /\ WF_vars(NextMMR)

MmrReturned == pc # "mmr" /\ trace[Len(trace)] = "mmr"

MmrBoundedState ==
    /\ Len(selected) + Len(remaining) = Len(mmr_cands)
    /\ MmrReturned =>
        /\ Len(mmr_ret) <= mmr_top_k
        /\ Len(mmr_ret) <= Len(mmr_cands)
        /\ \A i \in 1..Len(mmr_ret) : \E c \in 1..Len(mmr_cands) : mmr_cands[c] = mmr_ret[i]
        /\ \A i, j \in 1..Len(mmr_ret) : i # j => mmr_ret[i] # mmr_ret[j]

\* C8: for any candidates and any top_k >= 0, _mmr ends, and what it returns has at
\* most min(top_k, number of candidates) items, each one of the candidates, none twice.
MmrBounded == []MmrBoundedState /\ <>(pc # "mmr")

\* a call with top_k below the number of candidates returned top_k of them
MmrCutAtTopK ==
    /\ MmrReturned
    /\ mmr_top_k = 2
    /\ Len(mmr_cands) >= 4
    /\ Len(mmr_ret) = 2
    /\ mmr_ret[1] # selected[1]

\* C9: the first pick has the highest similarity to the query; every later pick
\* maximizes 0.7 * sim_to_query - 0.3 * (highest similarity to a pick made before)
\* over the candidates not picked yet; of several maximal candidates the earliest
\* in candidate order is picked; called with top_k = min(8, candidates), the
\* selection ends with min(8, candidates) picks.
MmrSelectionRule ==
    LET n == Len(cand_vecs)
        qs(j) == Sim(cand_vecs[j + 1], qv)
        before(k) == {selected[i] : i \in 1..(k - 1)}
        worst(j, k) == CHOOSE x \in {Sim(cand_vecs[j + 1], cand_vecs[s + 1]) : s \in before(k)} :
                          \A s \in before(k) : Sim(cand_vecs[j + 1], cand_vecs[s + 1]) <= x
        key(j, k) == IF k = 1 THEN qs(j) ELSE 7 * qs(j) - 3 * worst(j, k)
    IN  /\ \A k \in 1..Len(selected) :
            /\ selected[k] \in (0..(n - 1)) \ before(k)
            /\ \A j \in (0..(n - 1)) \ before(k) :
                /\ key(j, k) <= key(selected[k], k)
                /\ key(j, k) = key(selected[k], k) => selected[k] <= j
        /\ (MmrReturned /\ mmr_top_k = (IF n < 8 THEN n ELSE 8)) =>
                Len(selected) = (IF n < 8 THEN n ELSE 8)

\* nine candidates, eight picked, and a pick that gave up similarity to the query
\* for distance from the picks before it
MmrEightOfNineDiverse ==
    /\ MmrReturned
    /\ Len(cand_vecs) = 9
    /\ Len(selected) = 8
    /\ \E j \in 0..8 :
        /\ \A i \in 1..2 : selected[i] # j
        /\ Sim(cand_vecs[j + 1], qv) > Sim(cand_vecs[selected[2] + 1], qv)

----------------------------------------------------------------------------
(* The answer synthesizer (app/llm.py). A sentence is [ws, n]: its word set   *)
(* (_wordset) and the number of its whitespace-separated words; a text is     *)
(* known by the number of its words.                                          *)

MaxCtx == 3        \* contexts passed to synthesize_answer
MaxSents == 2      \* sentences of one context

WordBudget == 60   \* _trim_to_words(fused, 60)
TopContexts == 2   \* contexts[:2]
MaxPicked == 2     \* max_sents=2
MinShared == 2     \* len(overlap_tokens) < 2

\* _wordset(query)
SynthQueries == {{}, {1}, {1, 2}}

SynthSents ==
    {[ws |-> {4}, n |-> 5], [ws |-> {1}, n |-> 29],
     [ws |-> {1, 2}, n |-> 31], [ws |-> {2, 4}, n |-> 2]}

\* "I don't know based on the indexed documents.", []
Refusal == [kind |-> "refusal", words |-> 8, cites |-> <<>>]

\* a reply of _smalltalk_or_none, []
Canned == [kind |-> "canned", words |-> 11, cites |-> <<>>]

\* len(q & _wordset(s))
Overlap(q, s) == Cardinality(q \cap s.ws)

\* _best_sents_for_query(query, chunk, max_sents=2): the sentences sharing a token
\* with the query, by descending overlap, equal overlaps in text order, the first two
BestSents(q, chunk) ==
    LET hit(s) == Overlap(q, s) > 0
        scored == SelectSeq(chunk, hit)
        n == Len(scored)
        before(a, b) == Overlap(q, scored[a]) > Overlap(q, scored[b])
                        \/ (Overlap(q, scored[a]) = Overlap(q, scored[b]) /\ a < b)
        sorted == [j \in 1..n |->
                      scored[CHOOSE a \in 1..n : Cardinality({b \in 1..n : before(b, a)}) = j - 1]]
    IN  Take(sorted, MaxPicked)

\* the union of q & _wordset(s) over chosen_sents
OverlapTokens(q, sents) == UNION {q \cap sents[i].ws : i \in 1..Len(sents)}

\* a variant of the strict guard that is content with one shared token
GuardFiresBelowOne(q, sents) == Cardinality(OverlapTokens(q, sents)) < 1

\* len(overlap_tokens) < 2
GuardFires(q, sents) == Cardinality(OverlapTokens(q, sents)) < MinShared

RECURSIVE SumWords(_)
\* len(" ".join(chosen_sents).split())
SumWords(sents) == IF sents = <<>> THEN 0 ELSE sents[1].n + SumWords(Tail(sents))

\* len(_trim_to_words(text, 60).split()) for a text of n words: the first 60 words,
\* the ellipsis joined to the last of them
TrimToWords(n) == IF n <= WordBudget THEN n ELSE WordBudget

\* len(f"{fused} {cites}".strip().split()): the markers are one more word
CitedWords(n, cites) == IF cites = <<>> THEN n ELSE n + 1

\* if not strict: chit = _smalltalk_or_none(query) ...; if not contexts: ...
SynthGuards ==
    /\ sy_pc = "guards"
    /\ IF ~sy_call.strict /\ sy_call.chit
       THEN sy_pc' = "done" /\ answer' = Canned
       ELSE IF sy_call.n = 0
            THEN sy_pc' = "done" /\ answer' = Refusal
            ELSE sy_pc' = "loop" /\ UNCHANGED answer
    /\ UNCHANGED <<sy_call, chosen_sents, used_idxs>>
    /\ UNCHANGED <<storeVars, retrVars, adders, chunkVars>>

\* one pass of the loop over enumerate(contexts[:2], start=1)
SynthContext ==
    /\ sy_pc = "loop"
    /\ Len(sy_call.contexts) < Min(TopContexts, sy_call.n)
    /\ \E chunk \in SeqsUpTo(SynthSents, MaxSents) :
        LET i == Len(sy_call.contexts) + 1
            sents == BestSents(sy_call.query, chunk)
        IN  /\ sy_call' = [sy_call EXCEPT !.contexts = Append(@, chunk)]
            /\ chosen_sents' = IF sents # <<>> THEN chosen_sents \o sents ELSE chosen_sents
            /\ used_idxs' = IF sents # <<>> THEN Append(used_idxs, i) ELSE used_idxs
    /\ UNCHANGED <<sy_pc, answer>>
    /\ UNCHANGED <<storeVars, retrVars, adders, chunkVars>>

\* the strict guard, the fusion, the trim and the citation markers
SynthReturn ==
    /\ sy_pc = "loop"
    /\ Len(sy_call.contexts) = Min(TopContexts, sy_call.n)
    /\ sy_pc' = "done"
    /\ answer' = IF GuardFires(sy_call.query, chosen_sents) \/ chosen_sents = <<>>
                 THEN Refusal
                 ELSE [kind |-> "grounded",
                       words |-> CitedWords(TrimToWords(SumWords(chosen_sents)), used_idxs),
                       cites |-> used_idxs]
    /\ UNCHANGED <<sy_call, chosen_sents, used_idxs>>
    /\ UNCHANGED <<storeVars, retrVars, adders, chunkVars>>

InitSynth ==
    /\ IdleStore
    /\ NoRetrieve
    /\ adders = NoAdders
    /\ NoChunking
    /\ sy_pc = "guards"
    /\ \E q \in SynthQueries, c, s \in BOOLEAN, n \in 0..MaxCtx :
         sy_call = [query |-> q, chit |-> c, n |-> n, contexts |-> <<>>, strict |-> s]
    /\ chosen_sents = <<>>
    /\ used_idxs = <<>>
    /\ answer = NoAnswer

NextSynth == SynthGuards \/ SynthContext \/ SynthReturn

SpecSynth == InitSynth /\ [][NextSynth]_vars

\* the query tokens found in the sentences kept of the contexts read
SharedTokens ==
    UNION {sy_call.query \cap s.ws :
             s \in UNION {Range(BestSents(sy_call.query, sy_call.contexts[i])) :
                            i \in 1..Len(sy_call.contexts)}}

\* C11: a call with contexts to which no canned reply applies returns the refusal
\* with no citation, strict or not, when the kept sentences of the first two contexts
\* share fewer than 2 distinct tokens with the query; it returns a grounded answer
\* only when they share at least 2.
StrictGuard ==
    (sy_pc = "done" /\ sy_call.n > 0 /\ ~(~sy_call.strict /\ sy_call.chit)) =>
        /\ Cardinality(SharedTokens) < 2 => answer = Refusal
        /\ answer.kind = "grounded" => Cardinality(SharedTokens) >= 2
        /\ answer.kind \in {"refusal", "grounded"}
        /\ answer.kind = "refusal" => answer.cites = <<>>

\* a non-strict call whose kept sentences share one token with the query was refused
RefusedOnOneSharedToken ==
    /\ sy_pc = "done"
    /\ ~sy_call.strict
    /\ chosen_sents # <<>>
    /\ Cardinality(SharedTokens) = 1
    /\ answer = Refusal

\* C12: the answer returned has at most 60 whitespace-separated words, the ellipsis
\* and the citation markers counted.
AnswerWithinBudget == sy_pc = "done" => answer.words <= 60

----------------------------------------------------------------------------
(* The chunker (rag/universal_chunk.py): the loop of make_chunks over the     *)
(* annotated lines. A line is [type, sents]: its sentences by their word      *)
(* counts; a buffered sentence or row is [id, w], id = <<line, place>>        *)
(* (place 0: the line taken as a row). A chunk is known by the sentences or   *)
(* rows joined into it; the cut at max_chars is not represented.              *)

MaxItems == 3      \* lines of the text still to read

target_tokens == 180
overlap_tokens == 30
WIN == 20
RowsPerChunk == 30
RowOverlap == 5

\* what _annotate_lines returns for a line, with _sentences of its text
CkItems ==
    {[type |-> "heading", sents |-> <<>>], [type |-> "row", sents |-> <<4>>],
     [type |-> "kv", sents |-> <<15>>], [type |-> "plain", sents |-> <<15>>],
     [type |-> "plain", sents |-> <<61>>], [type |-> "plain", sents |-> <<77>>],
     [type |-> "plain", sents |-> <<77, 15>>]}

RowItem == [type |-> "row", sents |-> <<4>>]

\* _approx_tokens of a text of w words: int(1.3 * max(1, w))
ApproxTokens(w) == (13 * Max(1, w)) \div 10

RECURSIVE Cost(_)
\* sum(_approx_tokens(s) for s in sents)
Cost(sents) == IF sents = <<>> THEN 0 ELSE ApproxTokens(sents[1].w) + Cost(Tail(sents))

\* _row_group_mode(window)
RowGroupMode(w) ==
    /\ w # <<>>
    /\ 2 * Cardinality({i \in 1..Len(w) : w[i].type = "row"}) >= Len(w)

RECURSIVE BackFrom(_, _, _)
\* the loop of flush_prose over reversed(buf_sents), from place i down, tokens so far
BackFrom(sents, i, tokens) ==
    IF i = 0 THEN <<>>
    ELSE LET st == ApproxTokens(sents[i].w)
         IN  IF tokens + st >= overlap_tokens THEN <<>>
             ELSE Append(BackFrom(sents, i - 1, tokens + st), sents[i])

\* The state the two flushes and the sentence loop work on:
\* [chunks, buf_sents, buf_tokens, row_buf, row_start]
CkState ==
    [chunks |-> chunks, buf_sents |-> buf_sents, buf_tokens |-> buf_tokens,
     row_buf |-> row_buf, row_start |-> row_start]

\* flush_prose()
FlushProse(st, section) ==
    IF st.buf_sents = <<>> THEN st
    ELSE LET back == BackFrom(st.buf_sents, Len(st.buf_sents), 0)
         IN  [st EXCEPT !.chunks = Append(@, [kind |-> "prose", body |-> st.buf_sents,
                                              section |-> section]),
                        !.buf_sents = back,
                        !.buf_tokens = Cost(back)]

\* flush_rows()
FlushRows(st, section) ==
    IF st.row_buf = <<>> THEN st
    ELSE LET n == Len(st.row_buf)
             r_end == st.row_start + n - 1
             back == IF n > RowOverlap THEN SubSeq(st.row_buf, n - RowOverlap + 1, n)
                     ELSE st.row_buf
         IN  [st EXCEPT !.chunks = Append(@, [kind |-> "rows", body |-> st.row_buf,
                                              section |-> section]),
                        !.row_start = r_end - Len(back) + 1,
                        !.row_buf = back]

\* the body of "for s in sents"
AddSent(st, s, section) ==
    IF st.buf_tokens + ApproxTokens(s.w) <= target_tokens \/ st.buf_sents = <<>>
    THEN [st EXCEPT !.buf_sents = Append(@, s), !.buf_tokens = @ + ApproxTokens(s.w)]
    ELSE LET f == FlushProse(st, section)
         IN  [f EXCEPT !.buf_sents = Append(@, s), !.buf_tokens = ApproxTokens(s.w)]

RECURSIVE AddSents(_, _, _, _)
\* for s in sents, from place k on; line is the number of the line they come from
AddSents(st, sents, line, section) ==
    IF sents = <<>> THEN st
    ELSE AddSents(AddSent(st, sents[1], section), Tail(sents), line, section)

\* the sentences of line number n, each with its id
Numbered(item, n) == [k \in 1..Len(item.sents) |-> [id |-> <<n, k>>, w |-> item.sents[k]]]

\* the row branch: flush_prose, append the row, flush_rows at 30 rows
TakeRow(st, item, n, section) ==
    LET f == FlushProse(st, section)
        g == [f EXCEPT !.row_buf = Append(@, [id |-> <<n, 0>>, w |-> item.sents[1]])]
    IN  IF Len(g.row_buf) >= RowsPerChunk THEN FlushRows(g, section) ELSE g

\* one pass of "for item in lines"
ChunkLine ==
    /\ ck_pc = "loop"
    /\ ck_lines # <<>>
    /\ LET item == Head(ck_lines)
           n == ck_n + 1
           w == Append(window, item)
           win == IF Len(w) > WIN THEN Tail(w) ELSE w
           st == IF item.type = "heading" THEN CkState
                 ELSE IF RowGroupMode(win) THEN TakeRow(CkState, item, n, current_section)
                 ELSE AddSents(CkState, Numbered(item, n), n, current_section)
       IN  /\ ck_lines' = Tail(ck_lines)
           /\ ck_n' = n
           /\ window' = win
           /\ current_section' = IF item.type = "heading" THEN n ELSE current_section
           /\ row_count' = IF item.type # "heading" /\ RowGroupMode(win)
                           THEN row_count + 1 ELSE row_count
           /\ chunks' = st.chunks
           /\ buf_sents' = st.buf_sents
           /\ buf_tokens' = st.buf_tokens
           /\ row_buf' = st.row_buf
           /\ row_start' = st.row_start
    /\ UNCHANGED ck_pc
    /\ UNCHANGED <<storeVars, retrVars, adders, synthVars>>

\* flush tails: flush_rows(), flush_prose()
ChunkTails ==
    /\ ck_pc = "loop"
    /\ ck_lines = <<>>
    /\ LET st == FlushProse(FlushRows(CkState, current_section), current_section)
       IN  /\ chunks' = st.chunks
           /\ buf_sents' = st.buf_sents
           /\ buf_tokens' = st.buf_tokens
           /\ row_buf' = st.row_buf
           /\ row_start' = st.row_start
    /\ ck_pc' = "done"
    /\ UNCHANGED <<ck_lines, ck_n, window, current_section, row_count>>
    /\ UNCHANGED <<storeVars, retrVars, adders, synthVars>>

\* the loop after k row lines at the head of the text, none flushed yet
RowPrefix == RowsPerChunk - 1

\* make_chunks on any text of up to MaxItems lines, or on such a text behind
\* RowPrefix row lines, which the loop has read
InitChunk ==
    /\ IdleStore
    /\ NoRetrieve
    /\ adders = NoAdders
    /\ NoSynth
    /\ ck_pc = "loop"
    /\ ck_lines \in SeqsUpTo(CkItems, MaxItems)
    /\ ck_n \in {0, RowPrefix}
    /\ window = [i \in 1..Min(ck_n, WIN) |-> RowItem]
    /\ buf_sents = <<>>
    /\ buf_tokens = 0
    /\ current_section = 0
    /\ row_buf = [i \in 1..ck_n |-> [id |-> <<i, 0>>, w |-> RowItem.sents[1]]]
    /\ row_start = 1
    /\ row_count = ck_n
    /\ chunks = <<>>

NextChunk == ChunkLine \/ ChunkTails

SpecChunk == InitChunk /\ [][NextChunk]_vars

\* C14: every prose chunk made of two or more sentences, retained ones included, has
\* a total estimated cost within target_tokens; so has the buffer while it holds two
\* or more sentences.
ProseBudget ==
    /\ \A k \in 1..Len(chunks) :
         (chunks[k].kind = "prose" /\ Len(chunks[k].body) >= 2)
             => Cost(chunks[k].body) <= 180
    /\ Len(buf_sents) >= 2 => Cost(buf_sents) <= 180

\* C17: every chunk holds a sentence or a row that no chunk before it holds.
NoOverlapOnlyChunk ==
    \A k \in 1..Len(chunks) :
        \E e \in Range(chunks[k].body) :
            \A j \in 1..(k - 1) : e \notin Range(chunks[j].body)

----------------------------------------------------------------------------
(* Two request threads of the API process add to the one store, with no lock  *)
(* (app/main.py: the endpoints are plain functions run on the thread pool);   *)
(* a third reads it. One action is one step of add.                           *)

\* a variant of index.add that puts the new rows in front
IndexAddFront(ix, vecs) == vecs \o ix

\* self.index.add(embeddings): the rows go behind the ones held
IndexAdd(ix, vecs) == ix \o vecs

InFlight(t) == adders[t].pc \in {"meta", "vectors", "persist", "bm25"}

\* add is called: the assert passes, the sidecar is opened
AddBegin(t) ==
    /\ phase = "ready"
    /\ adders[t].pc = "idle"
    /\ \E ms \in SeqsUpTo(MetaInputs, MaxBatch) :
        /\ ms # <<>>
        /\ adders' = [adders EXCEPT ![t] =
                        [pc |-> "meta", c |-> calls + 1, ms |-> ms, j |-> 0,
                         ov |-> \E u \in Threads \ {t} : InFlight(u)]]
    /\ calls' = calls + 1
    /\ UNCHANGED <<idxFile, sidecar, phase, index, metadocs, bm25, last>>
    /\ UNCHANGED <<retrVars, synthVars, chunkVars>>

\* one pass of "for m in metadatas": the line is written, the record appended
AddMeta(t) ==
    /\ adders[t].pc = "meta"
    /\ LET a == adders[t]
           r == Stored(a.ms[a.j + 1], a.c, a.j + 1)
       IN  /\ sidecar' = [exists |-> TRUE, lines |-> Append(sidecar.lines, RecLine(r))]
           /\ metadocs' = Append(metadocs, r)
           /\ adders' = [adders EXCEPT ![t].j = a.j + 1,
                                       ![t].pc = IF a.j + 1 = Len(a.ms) THEN "vectors" ELSE "meta"]
    /\ UNCHANGED <<idxFile, phase, index, bm25, calls, last>>
    /\ UNCHANGED <<retrVars, synthVars, chunkVars>>

\* self.index.add(embeddings.astype("float32"))
AddVectors(t) ==
    /\ adders[t].pc = "vectors"
    /\ LET a == adders[t]
           vecs == [j \in 1..Len(a.ms) |-> [ref |-> <<a.c, j>>, dir |-> EmbedDir(a.ms[j].text)]]
       IN  index' = IndexAdd(index, vecs)
    /\ adders' = [adders EXCEPT ![t].pc = "persist"]
    /\ UNCHANGED <<idxFile, sidecar, phase, metadocs, bm25, calls, last>>
    /\ UNCHANGED <<retrVars, synthVars, chunkVars>>

\* self._persist()
AddPersist(t) ==
    /\ adders[t].pc = "persist"
    /\ idxFile' = [exists |-> TRUE, vecs |-> index]
    /\ adders' = [adders EXCEPT ![t].pc = "bm25"]
    /\ UNCHANGED <<sidecar, phase, index, metadocs, bm25, calls, last>>
    /\ UNCHANGED <<retrVars, synthVars, chunkVars>>

\* rebuild bm25, and add returns
AddBm25(t) ==
    /\ adders[t].pc = "bm25"
    /\ bm25' = Bm25After(bm25, metadocs)
    /\ adders' = [adders EXCEPT ![t].pc = "done"]
    /\ UNCHANGED <<idxFile, sidecar, phase, index, metadocs, calls, last>>
    /\ UNCHANGED <<retrVars, synthVars, chunkVars>>

AddStep == \E t \in Threads : AddMeta(t) \/ AddVectors(t) \/ AddPersist(t) \/ AddBm25(t)

AddEnter == \E t \in Threads : AddBegin(t)

\* a reader takes store.index.ntotal and len(store.metadocs), as the guard of
\* retrieve does: before is the first, n the second
ReadSizes ==
    /\ phase = "ready"
    /\ last' = [op |-> "sizes", raised |-> FALSE, n |-> Len(metadocs), before |-> Len(index),
                k |-> 0, hits |-> <<>>, out |-> <<>>]
    /\ UNCHANGED <<idxFile, sidecar, phase, index, metadocs, bm25, calls>>
    /\ UNCHANGED <<retrVars, auxVars>>

InitConc ==
    /\ IdleStore
    /\ NoRetrieve
    /\ AuxIdle

NextConc == AddEnter \/ AddStep \/ ReadSizes

SpecConc == InitConc /\ [][NextConc]_vars

AddsQuiet == \A t \in Threads : ~InFlight(t)

AddsSerial == \A t \in Threads : ~adders[t].ov

\* C13: the store keeps its invariant when the add calls are serialized, and only
\* then: while no add is under way and none began during another, len(metadocs) is
\* size and every record is the one supplied with the vector at its position; the
\* lengths differ only while an add is between its first record and its vectors.
SerializedAddsAligned ==
    /\ (AddsQuiet /\ AddsSerial) =>
          /\ Len(metadocs) = Size
          /\ \A p \in 0..(Size - 1) : metadocs[p + 1].ref = index[p + 1].ref
    /\ Len(metadocs) # Size => \E t \in Threads : adders[t].pc \in {"meta", "vectors"}

\* two adds whose steps interleaved have both returned, a record does not belong to
\* the vector at its position, and the reader saw len(metadocs) differ from size
InterleavedAddsMisaligned ==
    /\ \A t \in Threads : adders[t].pc = "done"
    /\ ~AddsSerial
    /\ Len(metadocs) = Size
    /\ \E p \in 0..(Size - 1) : metadocs[p + 1].ref # index[p + 1].ref
    /\ last.op = "sizes" /\ last.n # last.before

====
